---------------------------- MODULE Spec2Model ----------------------------
(***************************************************************************)
(* FURGfs3 (src/furgfs3.py): a single-file FAT-style filesystem.           *)
(*                                                                         *)
(* Granularity.  The backing file is modelled in cells of ENTRY_SIZE (64)  *)
(* bytes, each cell seen through the directory-entry layout                *)
(* '<32s4I2H12x'.  A block is SlotsPerBlock cells (BLOCK_SIZE //           *)
(* ENTRY_SIZE, 16 in the source, scaled down here), file sizes and         *)
(* offsets are counted in cells, and file contents are sequences of cells  *)
(* whose 64 bytes are all equal (DataCell).  The 32-byte name field is     *)
(* kept with its trailing NUL padding dropped, which loses nothing for a   *)
(* field of fixed width.  Names are sequences of code points below 2048.   *)
(***************************************************************************)
EXTENDS Integers, Sequences, FiniteSets, TLC

VARIABLES
    mounted,            \* file_handle is open on a formatted volume
    file_handle,        \* self.file_handle: the file the handle is open on
    header,             \* self.header: the superblock record
    dirty,              \* bytes written through the handle since its last flush()
    fat,                \* self.fat: the in-memory chain table
    disk_header,        \* the superblock stored in the volume file
    disk_fat,           \* the chain table stored at fat_start
    disk,               \* directory and data blocks: disk[b][s], b = 0 the root block
    current_directory,  \* self.current_directory
    directory_path,     \* self.directory_path
    given,              \* history: chain head |-> content handed to _create_file_in_fs
    ops                 \* history: the number of operations called so far

vars == <<mounted, file_handle, header, dirty, fat, disk_header, disk_fat, disk,
          current_directory, directory_path, given, ops>>

---------------------------------------------------------------------------
(* Program constants and the bounds of the model *)

MAX_FILENAME == 32
HEADER_SIZE == 128
ENTRY_SIZE == 64
FAT_ENTRY_SIZE == 4
SlotsPerBlock == 3
TotalBlocks == 5
MaxTime == 1
MaxOps == 6
MaxOpsWide == 4
MaxOpsCrash == 4
MaxSizeMb == 128

BLOCK_SIZE == SlotsPerBlock
Blocks == 0 .. (TotalBlocks - 1)
SlotIdx == 0 .. (SlotsPerBlock - 1)
Timestamps == 1 .. MaxTime

Max(a, b) == IF a >= b THEN a ELSE b
Min(a, b) == IF a <= b THEN a ELSE b
Rep(x, n) == [i \in 1 .. n |-> x]

---------------------------------------------------------------------------
(* Names: str.encode('utf-8'), bytes.decode('utf-8'), and the checks of     *)
(* _read_directory                                                          *)

RECURSIVE Utf8Encode(_)
Utf8Encode(s) ==
    IF s = <<>> THEN <<>>
    ELSE LET c == Head(s)
         IN  (IF c < 128 THEN <<c>>
              ELSE <<192 + (c \div 64), 128 + (c % 64)>>) \o Utf8Encode(Tail(s))

\* bytes.decode('utf-8') for one- and two-byte sequences; ok = FALSE is the
\* UnicodeDecodeError
RECURSIVE Utf8Decode(_)
Utf8Decode(b) ==
    IF b = <<>> THEN [ok |-> TRUE, str |-> <<>>]
    ELSE IF Head(b) < 128
         THEN LET r == Utf8Decode(Tail(b))
              IN  [ok |-> r.ok, str |-> <<Head(b)>> \o r.str]
    ELSE IF /\ Head(b) >= 194 /\ Head(b) <= 223 /\ Len(b) >= 2
            /\ b[2] >= 128 /\ b[2] <= 191
         THEN LET r == Utf8Decode(Tail(Tail(b)))
              IN  [ok |-> r.ok, str |-> <<(Head(b) - 192) * 64 + (b[2] - 128)>> \o r.str]
    ELSE [ok |-> FALSE, str |-> <<>>]

RECURSIVE RStripNul(_)
RStripNul(b) ==
    IF b = <<>> \/ b[Len(b)] # 0 THEN b ELSE RStripNul(SubSeq(b, 1, Len(b) - 1))

\* str.isspace() for one code point below 2048
IsSpace(c) == c \in {9, 10, 11, 12, 13, 28, 29, 30, 31, 32, 133, 160}

ValidNameChar(c) == (32 <= c /\ c <= 126) \/ IsSpace(c)

\* .encode('utf-8')[:MAX_FILENAME].ljust(MAX_FILENAME, b'\x00'), padding dropped
NameField(name) ==
    LET e == Utf8Encode(name)
    IN  RStripNul(SubSeq(e, 1, Min(Len(e), MAX_FILENAME)))

---------------------------------------------------------------------------
(* Cells *)

\* a cell of ENTRY_SIZE bytes all equal to k (k < 128), unpacked with
\* '<32s4I2H12x'
DataCell(k) ==
    [nameb |-> IF k = 0 THEN <<>> ELSE Rep(k, MAX_FILENAME),
     size |-> k * 16843009, start_block |-> k * 16843009,
     timestamp |-> k * 16843009, reserved |-> k * 16843009,
     protected |-> k * 257, type |-> k * 257, pad |-> k]

ZeroCell == DataCell(0)
ZeroBlock == [s \in SlotIdx |-> ZeroCell]

\* data[0] of a cell
FirstByte(cell) == IF cell.nameb # <<>> THEN cell.nameb[1] ELSE 0

\* struct.pack('<32s4I2H12x', ...) of _write_directory_entry
PackEntry(entry) ==
    [nameb |-> NameField(entry.name),
     size |-> entry.size, start_block |-> entry.start_block,
     timestamp |-> entry.timestamp, reserved |-> 0,
     protected |-> IF entry.protected THEN 1 ELSE 0,
     type |-> entry.type, pad |-> 0]

\* the per-slot checks of _read_directory: ok = FALSE is a `continue`
DecodeCell(cell, nfat) ==
    LET d == Utf8Decode(cell.nameb)
        valid ==
            /\ cell # ZeroCell
            /\ d.ok
            /\ d.str # <<>>
            /\ \A i \in 1 .. Len(d.str) : ValidNameChar(d.str[i])
            /\ ~ (\/ cell.start_block >= nfat
                  \/ cell.type \notin {0, 1}
                  \/ cell.protected \notin {0, 1}
                  \/ cell.timestamp < 0
                  \* timestamp > 2**31, written within 32-bit integers
                  \/ cell.timestamp - 1 > 2147483647)
    IN  [ok |-> valid,
         entry |-> [name |-> d.str, size |-> cell.size,
                    start_block |-> cell.start_block,
                    timestamp |-> cell.timestamp,
                    protected |-> (cell.protected = 1),
                    type |-> cell.type]]

---------------------------------------------------------------------------
(* The volume object and the file its handle is open on.  The operations    *)
(* below are functions of the state st = [file_handle, header, dirty, fat,  *)
(* disk_header, disk_fat, disk, current_directory, directory_path] and of   *)
(* their arguments; each returns the state it leaves and what it returns.   *)
(* disk_header, disk_fat and disk are the file as the handle sees it, the   *)
(* writes still in its buffer included.                                     *)

State ==
    [file_handle |-> file_handle, header |-> header, dirty |-> dirty,
     fat |-> fat, disk_header |-> disk_header, disk_fat |-> disk_fat,
     disk |-> disk, current_directory |-> current_directory,
     directory_path |-> directory_path]

RECURSIVE ReadSlots(_, _, _)
ReadSlots(blk, nfat, s) ==
    IF s >= SlotsPerBlock THEN <<>>
    ELSE LET d == DecodeCell(blk[s], nfat)
         IN  (IF d.ok THEN <<d.entry>> ELSE <<>>) \o ReadSlots(blk, nfat, s + 1)

\* the list of the valid entries of a directory block, empty and invalid
\* slots skipped
_read_directory(st, directory_block) ==
    ReadSlots(st.disk[directory_block], Len(st.fat), 0)

\* the index (from 0) in a listing of the first entry with the name and one
\* of the types, searched from the i-th element; -1 if there is none
RECURSIVE FirstIndex(_, _, _, _)
FirstIndex(entries, name, types, i) ==
    IF i > Len(entries) THEN -1
    ELSE IF entries[i].name = name /\ entries[i].type \in types THEN i - 1
    ELSE FirstIndex(entries, name, types, i + 1)

AnyNamed(entries, name) == \E i \in 1 .. Len(entries) : entries[i].name = name

\* the free-slot scan of _write_directory_entry: first slot whose first byte is 0
RECURSIVE FreeSlot(_, _)
FreeSlot(blk, pos) ==
    IF pos >= SlotsPerBlock THEN -1
    ELSE IF FirstByte(blk[pos]) = 0 THEN pos
    ELSE FreeSlot(blk, pos + 1)

WriteCell(d, block, pos, cell) ==
    [d EXCEPT ![block] = [@ EXCEPT ![pos] = cell]]

\* raised = TRUE is the Exception("Diretório cheio")
_write_directory_entry(d, entry, position, directory_block) ==
    LET pos == IF position = -1 THEN FreeSlot(d[directory_block], 0) ELSE position
    IN  IF pos = -1 THEN [raised |-> TRUE, disk |-> d]
        ELSE [raised |-> FALSE,
              disk |-> WriteCell(d, directory_block, pos, PackEntry(entry))]

---------------------------------------------------------------------------
(* Allocator *)

\* the last free entry instead of the first
_find_free_block_last(f) ==
    IF \E i \in 1 .. Len(f) : f[i] = 0
    THEN (CHOOSE i \in 1 .. Len(f) : f[i] = 0 /\ \A j \in (i + 1) .. Len(f) : f[j] # 0) - 1
    ELSE -1

_find_free_block(f) ==
    IF \E i \in 1 .. Len(f) : f[i] = 0
    THEN (CHOOSE i \in 1 .. Len(f) : f[i] = 0 /\ \A j \in 1 .. (i - 1) : f[j] # 0) - 1
    ELSE -1

\* the first loop of _allocate_blocks without its rollback
RECURSIVE AllocLoopNoRollback(_, _, _)
AllocLoopNoRollback(f, blocks, left) ==
    IF left = 0 THEN [fat |-> f, blocks |-> blocks, failed |-> FALSE]
    ELSE LET block == _find_free_block(f)
         IN  IF block = -1
             THEN [fat |-> f, blocks |-> <<>>, failed |-> TRUE]
             ELSE AllocLoopNoRollback([f EXCEPT ![block + 1] = 1],
                                      Append(blocks, block), left - 1)

\* the first loop of _allocate_blocks
RECURSIVE AllocLoop(_, _, _)
AllocLoop(f, blocks, left) ==
    IF left = 0 THEN [fat |-> f, blocks |-> blocks, failed |-> FALSE]
    ELSE LET block == _find_free_block(f)
         IN  IF block = -1
             THEN [fat |-> [i \in 1 .. Len(f) |->
                               IF \E k \in 1 .. Len(blocks) : blocks[k] = i - 1
                               THEN 0 ELSE f[i]],
                   blocks |-> <<>>, failed |-> TRUE]
             ELSE AllocLoop([f EXCEPT ![block + 1] = 1], Append(blocks, block), left - 1)

_allocate_blocks(f, num_blocks) ==
    LET a == AllocLoop(f, <<>>, num_blocks)
        n == Len(a.blocks)
    IN  IF a.failed THEN [fat |-> a.fat, blocks |-> <<>>]
        ELSE [fat |-> [i \in 1 .. Len(f) |->
                          IF \E k \in 1 .. (n - 1) : a.blocks[k] = i - 1
                          THEN a.blocks[(CHOOSE k \in 1 .. (n - 1) : a.blocks[k] = i - 1) + 1]
                          ELSE IF n > 0 /\ a.blocks[n] = i - 1 THEN 1
                          ELSE a.fat[i]],
              blocks |-> a.blocks]

FatAt(f, b) == f[b + 1]

\* _update_fat: the whole table is rewritten at fat_start, then flush()
_update_fat(st) == [st EXCEPT !.disk_fat = st.fat, !.dirty = FALSE]

Result(st, ret, raised) == [st |-> st, ret |-> ret, raised |-> raised]

---------------------------------------------------------------------------
(* File engine *)

\* the write loop of _create_file_in_fs: chunk k of the content, padded with
\* zero cells, goes to the k-th block of the chain
RECURSIVE WriteChain(_, _, _, _)
WriteChain(d, blocks, content, offset) ==
    IF blocks = <<>> THEN d
    ELSE LET chunk == [s \in SlotIdx |->
                          IF offset + s + 1 <= Len(content)
                          THEN content[offset + s + 1] ELSE ZeroCell]
         IN  WriteChain([d EXCEPT ![Head(blocks)] = chunk], Tail(blocks),
                        content, offset + BLOCK_SIZE)

_create_file_in_fs(st, filename, content, now) ==
    LET entries == _read_directory(st, st.current_directory)
        num_blocks == Max(1, (Len(content) + BLOCK_SIZE - 1) \div BLOCK_SIZE)
        a == _allocate_blocks(st.fat, num_blocks)
        d1 == WriteChain(st.disk, a.blocks, content, 0)
        entry == [name |-> filename, size |-> Len(content),
                  start_block |-> a.blocks[1], protected |-> FALSE,
                  type |-> 0, timestamp |-> now]
        w == _write_directory_entry(d1, entry, -1, st.current_directory)
    IN  IF Len(filename) > MAX_FILENAME - 1 THEN Result(st, FALSE, FALSE)
        ELSE IF AnyNamed(entries, filename) THEN Result(st, FALSE, FALSE)
        ELSE IF a.blocks = <<>>
             THEN Result([st EXCEPT !.fat = a.fat], FALSE, FALSE)
        ELSE IF w.raised
             THEN Result([st EXCEPT !.fat = a.fat, !.disk = d1, !.dirty = TRUE],
                         FALSE, TRUE)
        ELSE Result(_update_fat([st EXCEPT !.fat = a.fat, !.disk = w.disk]),
                    TRUE, FALSE)

\* the first entry of the current directory that is a file called filename
FileIndex(entries, filename) == FirstIndex(entries, filename, {0}, 1)

\* the chain walk of _read_file_from_fs
RECURSIVE ReadLoop(_, _, _, _)
ReadLoop(st, content, current_block, bytes_left) ==
    IF ~ (current_block # 1 /\ bytes_left > 0) THEN content
    ELSE LET chunk_size == Min(BLOCK_SIZE, bytes_left)
             more == content \o [i \in 1 .. chunk_size |->
                                    st.disk[current_block][i - 1]]
             next_block == FatAt(st.fat, current_block)
         IN  IF next_block \in {1, 0} THEN more
             ELSE ReadLoop(st, more, next_block, bytes_left - chunk_size)

\* none = TRUE is the None the method returns when no such file is listed
_read_file_from_fs(st, filename) ==
    LET entries == _read_directory(st, st.current_directory)
        i == FileIndex(entries, filename)
    IN  IF i = -1 THEN [none |-> TRUE, content |-> <<>>]
        ELSE [none |-> FALSE,
              content |-> ReadLoop(st, <<>>, entries[i + 1].start_block,
                                   entries[i + 1].size)]

\* the chain-freeing loop of remove_file
RECURSIVE FreeChainLoop(_, _)
FreeChainLoop(f, current_block) ==
    IF current_block \in {1, 0} THEN f
    ELSE LET next_block == FatAt(f, current_block)
         IN  FreeChainLoop([f EXCEPT ![current_block + 1] = 0],
                           IF next_block # 1 THEN next_block ELSE 0)

remove_file(st, filename) ==
    LET entries == _read_directory(st, st.current_directory)
        i == FileIndex(entries, filename)
        entry == entries[i + 1]
        f1 == FreeChainLoop(st.fat, entry.start_block)
        \* the list is read again and the index in that list is used as the slot
        d1 == WriteCell(st.disk, st.current_directory, i, ZeroCell)
    IN  IF i = -1 THEN Result(st, FALSE, FALSE)
        ELSE IF entry.protected THEN Result(st, FALSE, FALSE)
        ELSE Result(_update_fat([st EXCEPT !.fat = f1, !.disk = d1]), TRUE, FALSE)

---------------------------------------------------------------------------
(* Directory engine *)

\* found = FALSE is the False of _item_operation (missing, or protected under
\* remove and rename); otherwise i is the index in the list of valid entries
_item_operation(st, name, item_type, operation) ==
    LET entries == _read_directory(st, st.current_directory)
        i == FirstIndex(entries, name, {item_type}, 1)
    IN  IF i = -1 THEN [found |-> FALSE, i |-> -1]
        ELSE IF entries[i + 1].protected /\ operation \in {"remove", "rename"}
             THEN [found |-> FALSE, i |-> -1]
        ELSE [found |-> TRUE, i |-> i]

create_directory(st, dirname, now) ==
    LET entries == _read_directory(st, st.current_directory)
        a == _allocate_blocks(st.fat, 1)
        d1 == [st.disk EXCEPT ![a.blocks[1]] = ZeroBlock]
        entry == [name |-> dirname, size |-> 0, start_block |-> a.blocks[1],
                  protected |-> FALSE, type |-> 1, timestamp |-> now]
        w == _write_directory_entry(d1, entry, -1, st.current_directory)
    IN  IF Len(dirname) > MAX_FILENAME - 1 THEN Result(st, FALSE, FALSE)
        ELSE IF AnyNamed(entries, dirname) THEN Result(st, FALSE, FALSE)
        ELSE IF a.blocks = <<>>
             THEN Result([st EXCEPT !.fat = a.fat], FALSE, FALSE)
        ELSE IF w.raised
             THEN Result([st EXCEPT !.fat = a.fat, !.disk = d1, !.dirty = TRUE],
                         FALSE, TRUE)
        ELSE Result(_update_fat([st EXCEPT !.fat = a.fat, !.disk = w.disk]),
                    TRUE, FALSE)

remove_directory(st, dirname) ==
    LET entries == _read_directory(st, st.current_directory)
        result == _item_operation(st, dirname, 1, "remove")
        dir_entry == entries[result.i + 1]
        f1 == [st.fat EXCEPT ![dir_entry.start_block + 1] = 0]
        d1 == WriteCell(st.disk, st.current_directory, result.i, ZeroCell)
    IN  IF ~ result.found THEN Result(st, FALSE, FALSE)
        ELSE IF _read_directory(st, dir_entry.start_block) # <<>>
             THEN Result(st, FALSE, FALSE)
        ELSE Result(_update_fat([st EXCEPT !.fat = f1, !.disk = d1]), TRUE, FALSE)

_rename_item(st, old_name, new_name, item_type) ==
    LET entries == _read_directory(st, st.current_directory)
        result == _item_operation(st, old_name, item_type, "rename")
        renamed == [entries[result.i + 1] EXCEPT !.name = new_name]
        w == _write_directory_entry(st.disk, renamed, result.i, st.current_directory)
    IN  IF Len(new_name) > MAX_FILENAME - 1 THEN Result(st, FALSE, FALSE)
        ELSE IF ~ result.found THEN Result(st, FALSE, FALSE)
        ELSE IF AnyNamed(entries, new_name) THEN Result(st, FALSE, FALSE)
        ELSE Result([st EXCEPT !.disk = w.disk, !.dirty = TRUE], TRUE, FALSE)

rename_directory(st, old_name, new_name) == _rename_item(st, old_name, new_name, 1)

rename_file(st, old_name, new_name) == _rename_item(st, old_name, new_name, 0)

toggle_protection(st, filename) ==
    LET entries == _read_directory(st, st.current_directory)
        i == FirstIndex(entries, filename, {0, 1}, 1)
        entry == [entries[i + 1] EXCEPT !.protected = ~ @]
        w == _write_directory_entry(st.disk, entry, i, st.current_directory)
    IN  IF i = -1 THEN Result(st, FALSE, FALSE)
        ELSE Result([st EXCEPT !.disk = w.disk, !.dirty = TRUE], TRUE, FALSE)

Slash == <<47>>
DotDot == <<46, 46>>

\* the walk from the root of change_directory(".."): found = FALSE when a
\* component of the path is not listed as a directory
RECURSIVE WalkPath(_, _, _)
WalkPath(st, parts, current_block) ==
    IF parts = <<>> THEN [found |-> TRUE, block |-> current_block]
    ELSE LET entries == _read_directory(st, current_block)
             i == FirstIndex(entries, Head(parts), {1}, 1)
         IN  IF i = -1 THEN [found |-> FALSE, block |-> current_block]
             ELSE WalkPath(st, Tail(parts), entries[i + 1].start_block)

change_directory(st, dirname) ==
    LET popped == SubSeq(st.directory_path, 1, Len(st.directory_path) - 1)
        walk == WalkPath(st, Tail(popped), 0)
        entries == _read_directory(st, st.current_directory)
        i == FirstIndex(entries, dirname, {1}, 1)
    IN  IF dirname = DotDot
        THEN IF Len(st.directory_path) > 1
             THEN IF Len(popped) = 1
                  THEN Result([st EXCEPT !.directory_path = popped,
                                         !.current_directory = 0], TRUE, FALSE)
                  ELSE IF ~ walk.found
                       THEN Result([st EXCEPT !.directory_path = popped], FALSE, FALSE)
                  ELSE Result([st EXCEPT !.directory_path = popped,
                                         !.current_directory = walk.block],
                              TRUE, FALSE)
             ELSE Result(st, FALSE, FALSE)
        ELSE IF i = -1 THEN Result(st, FALSE, FALSE)
        ELSE Result([st EXCEPT !.current_directory = entries[i + 1].start_block,
                               !.directory_path = Append(@, dirname)],
                    TRUE, FALSE)

\* str.join
RECURSIVE Join(_, _)
Join(sep, parts) ==
    IF parts = <<>> THEN <<>>
    ELSE IF Len(parts) = 1 THEN parts[1]
    ELSE parts[1] \o sep \o Join(sep, Tail(parts))

get_current_path(st) ==
    IF st.directory_path = <<>> THEN Slash
    ELSE IF Len(st.directory_path) = 1 THEN Slash
    ELSE Join(Slash, st.directory_path)

---------------------------------------------------------------------------
(* Copy in and out, with the MD5 check *)

\* hashlib.md5(content).hexdigest(): no two contents of the model collide, so
\* the digest is the content under a tag
_calculate_file_hash(content) == <<"md5", content>>

\* str.strip('"\'')
RECURSIVE LStripQuotes(_)
LStripQuotes(s) ==
    IF s # <<>> /\ Head(s) \in {34, 39} THEN LStripQuotes(Tail(s)) ELSE s

RECURSIVE RStripQuotes(_)
RStripQuotes(s) ==
    IF s # <<>> /\ s[Len(s)] \in {34, 39}
    THEN RStripQuotes(SubSeq(s, 1, Len(s) - 1)) ELSE s

StripQuotes(s) == RStripQuotes(LStripQuotes(s))

\* copy_to_fs with an existing host file of the given content and a
\* destination name; an exception of the body is caught and answered False
copy_to_fs(st, dst, content, now) ==
    LET dst_name == StripQuotes(dst)
        original_hash == _calculate_file_hash(content)
        c == _create_file_in_fs(st, dst_name, content, now)
        v == _read_file_from_fs(c.st, dst_name)
        verification_hash == _calculate_file_hash(v.content)
        r == remove_file(c.st, dst_name)
    IN  IF c.raised THEN Result(c.st, FALSE, FALSE)
        ELSE IF ~ c.ret THEN Result(c.st, FALSE, FALSE)
        ELSE IF v.none \/ v.content = <<>> THEN Result(c.st, TRUE, FALSE)
        ELSE IF original_hash = verification_hash THEN Result(c.st, TRUE, FALSE)
        ELSE Result(r.st, FALSE, FALSE)

\* copy_from_fs to a fresh host path: out is what the host file holds after
\* a successful copy
copy_from_fs(st, src_name) ==
    LET entries == _read_directory(st, st.current_directory)
        i == FileIndex(entries, src_name)
        content_from_fs == _read_file_from_fs(st, src_name)
    IN  IF i = -1 THEN [ret |-> FALSE, out |-> <<>>]
        ELSE IF content_from_fs.none \/ content_from_fs.content = <<>>
             THEN [ret |-> FALSE, out |-> <<>>]
        ELSE [ret |-> TRUE, out |-> content_from_fs.content]

---------------------------------------------------------------------------
(* Volume lifecycle *)

\* "autores.txt"
AutoresTxt == <<97, 117, 116, 111, 114, 101, 115, 46, 116, 120, 116>>

\* the authors line written at format time: 150 bytes, three cells, less
\* than a block
Authors == <<DataCell(104), DataCell(101), DataCell(110)>>

\* HEADER_SIZE in cells
HeaderCells == HEADER_SIZE \div ENTRY_SIZE

\* BLOCK_SIZE // ENTRY_SIZE of the source: the cells of a 1024-byte block
SourceSlots == 1024 \div ENTRY_SIZE

\* 1024 * 1024 bytes, in cells
MB == (1024 * 1024) \div ENTRY_SIZE

\* the "megabyte" of the scaled volume of the state machine: the cells that
\* give a volume of size 1 exactly TotalBlocks blocks of BLOCK_SIZE cells
ScaledMB == HeaderCells + TotalBlocks * BLOCK_SIZE

\* fat_blocks rounded down instead of up
FatBlocksFloor(total_blocks, B) ==
    (total_blocks * FAT_ENTRY_SIZE) \div (B * ENTRY_SIZE)

\* fat_blocks: the table takes FAT_ENTRY_SIZE bytes an entry, B is in cells
FatBlocks(total_blocks, B) ==
    (total_blocks * FAT_ENTRY_SIZE + B * ENTRY_SIZE - 1) \div (B * ENTRY_SIZE)

\* the layout create_filesystem computes for a volume of `total` cells with
\* blocks of B cells; offsets and total_size in cells, total_blocks a count
Layout(total, B) ==
    LET total_blocks == (total - HeaderCells) \div B
        fat_start == HeaderCells
        fat_blocks == FatBlocks(total_blocks, B)
        root_start == fat_start + fat_blocks * B
        data_start == root_start + B
    IN  [header_size |-> HeaderCells, block_size |-> B, total_size |-> total,
         fat_start |-> fat_start, root_start |-> root_start,
         data_start |-> data_start, total_blocks |-> total_blocks,
         free_blocks |-> 0]

NoHeader == [total_blocks |-> 0]

\* a field of cells * ENTRY_SIZE bytes fits the 'I' of struct.pack: it is
\* at most 0xFFFFFFFF
FitsU32(cells) == cells >= 0 /\ cells < (2^16 \div ENTRY_SIZE) * 2^16

\* the size check of create_filesystem and the struct.pack of the header,
\* for size_mb units of mb cells: ok = FALSE with raised = FALSE is the size
\* rejected, raised = TRUE the struct.error that the method catches after it
\* has opened, and so emptied, the file
PackHeader(size_mb, mb, B) ==
    LET h == Layout(size_mb * mb, B)
    IN  IF size_mb < 1 \/ size_mb > 10000
        THEN [ok |-> FALSE, raised |-> FALSE, header |-> NoHeader]
        ELSE IF ~ (/\ FitsU32(h.total_size) /\ FitsU32(h.fat_start)
                   /\ FitsU32(h.root_start) /\ FitsU32(h.data_start))
             THEN [ok |-> FALSE, raised |-> TRUE, header |-> NoHeader]
        ELSE [ok |-> TRUE, raised |-> FALSE, header |-> h]

NoHandle == "None"
VolumeFile == "volume"
ForeignFile == "foreign"

\* the volume file with entry 0 of the chain table left 0
FreshVolumeUnreserved(st, h) ==
    LET f == [i \in 1 .. h.total_blocks |-> 0]
    IN  [st EXCEPT !.disk_header = h, !.disk_fat = f,
                   !.disk = [b \in Blocks |-> ZeroBlock]]

\* the volume file create_filesystem writes before it loads it, seen from
\* the object st
FreshVolume(st, h) ==
    LET f == [i \in 1 .. h.total_blocks |-> IF i = 1 THEN 1 ELSE 0]
    IN  [st EXCEPT !.disk_header = h, !.disk_fat = f,
                   !.disk = [b \in Blocks |-> ZeroBlock]]

\* _load_filesystem on the volume file of st: the handle it replaces is
\* closed, and so flushed
_load_filesystem(st) ==
    [st EXCEPT !.file_handle = VolumeFile, !.header = st.disk_header,
               !.dirty = FALSE, !.fat = st.disk_fat,
               !.current_directory = 0, !.directory_path = <<Slash>>]

\* _load_filesystem on a file that is no volume.  "missing": there is no
\* such file; "short": it has fewer than HEADER_SIZE bytes; "signature": its
\* header does not start with FURGfs3, which is found after the handle has
\* been opened on it
LoadKinds == {"missing", "short", "signature"}

_load_filesystem_rejected(st, kind) ==
    IF kind = "signature"
    THEN [st EXCEPT !.file_handle = ForeignFile, !.dirty = FALSE]
    ELSE st

\* create_filesystem of size_mb units of the scaled megabyte, under a file
\* name not in use before: reset the path, check the size, write the file,
\* load it, create autores.txt
create_filesystem(st, size_mb, now) ==
    LET reset == [st EXCEPT !.current_directory = 0,
                            !.directory_path = <<Slash>>]
        p == PackHeader(size_mb, ScaledMB, BLOCK_SIZE)
        loaded == _load_filesystem(FreshVolume(reset, p.header))
        c == _create_file_in_fs(loaded, AutoresTxt, Authors, now)
    IN  IF ~ p.ok THEN Result(reset, FALSE, FALSE)
        ELSE Result(c.st, ~ c.raised, FALSE)

\* sum() of a list of integers
RECURSIVE SumSeq(_)
SumSeq(s) == IF s = <<>> THEN 0 ELSE Head(s) + SumSeq(Tail(s))

\* the depth of recursion at which _calculate_directory_size is cut off by
\* the interpreter's RecursionError: no chain of directories nested in one
\* another without repetition is longer than the number of blocks
RecursionLimit == TotalBlocks

\* _calculate_directory_size at the given depth of recursion; -1 is the
\* RecursionError
RECURSIVE _calculate_directory_size(_, _, _)
_calculate_directory_size(st, directory_block, depth) ==
    IF depth > RecursionLimit THEN -1
    ELSE LET entries == _read_directory(st, directory_block)
             sizes == [i \in 1 .. Len(entries) |->
                          IF entries[i].type = 0 THEN entries[i].size
                          ELSE _calculate_directory_size(
                                   st, entries[i].start_block, depth + 1)]
         IN  IF \E i \in 1 .. Len(sizes) : sizes[i] = -1 THEN -1
             ELSE SumSeq(sizes)

\* the calculated_size that list_files attaches to a directory entry: 0 when
\* the computation raised
calculated_size(st, entry) ==
    LET s == _calculate_directory_size(st, entry.start_block, 1)
    IN  IF s = -1 THEN 0 ELSE s

\* get_space_info, in bytes: a block is BLOCK_SIZE cells of ENTRY_SIZE bytes
get_space_info(st) ==
    LET block_bytes == BLOCK_SIZE * ENTRY_SIZE
        free_blocks == Cardinality({i \in 1 .. Len(st.fat) : st.fat[i] = 0})
        fat_blocks == (Len(st.fat) * FAT_ENTRY_SIZE + block_bytes - 1) \div block_bytes
        header_blocks == (HEADER_SIZE + block_bytes - 1) \div block_bytes
        metadata_blocks == fat_blocks + header_blocks + 1
        total_data_blocks == Len(st.fat) - metadata_blocks
    IN  IF st.fat = <<>> THEN [free_bytes |-> 0, total_bytes |-> 0]
        ELSE [free_bytes |-> free_blocks * block_bytes,
              total_bytes |-> total_data_blocks * block_bytes]

---------------------------------------------------------------------------
(* Inputs *)

NameA == <<97>>
NameB == <<98>>
NameC == <<99>>
\* "é": one character, two bytes, not in the printable range of _read_directory
NameAccent == <<233>>
\* 31 and 32 ASCII characters
Name31 == Rep(120, MAX_FILENAME - 1)
Name32 == Rep(120, MAX_FILENAME)
\* 16 times "é": 16 characters, 32 bytes
NameWide == Rep(233, MAX_FILENAME \div 2)

Names == {NameA, NameB, AutoresTxt}
WideNames == {NameA, AutoresTxt, NameAccent, Name31, Name32, NameWide}

\* a content of n cells, the i-th made of the byte 64 + i
ContentOfLen(n) == [i \in 1 .. n |-> DataCell(64 + i)]

Contents == {ContentOfLen(n) : n \in {0, 1, BLOCK_SIZE + 1}}

---------------------------------------------------------------------------
(* Actions: one per operation of the menu.  N is the set the names are drawn *)
(* from and max the number of operations a run makes.                        *)

NoFile == [has |-> FALSE, content |-> <<>>]

Install(st) ==
    /\ file_handle' = st.file_handle
    /\ header' = st.header
    /\ dirty' = st.dirty
    /\ fat' = st.fat
    /\ disk_header' = st.disk_header
    /\ disk_fat' = st.disk_fat
    /\ disk' = st.disk
    /\ current_directory' = st.current_directory
    /\ directory_path' = st.directory_path

\* an operation on the mounted volume
Call(max) ==
    /\ mounted
    /\ ops < max
    /\ ops' = ops + 1
    /\ UNCHANGED mounted

Init ==
    /\ mounted = FALSE
    /\ file_handle = NoHandle
    /\ header = NoHeader
    /\ dirty = FALSE
    /\ fat = <<>>
    /\ disk_header = NoHeader
    /\ disk_fat = <<>>
    /\ disk = [b \in Blocks |-> ZeroBlock]
    /\ current_directory = 0
    /\ directory_path = <<Slash>>
    /\ given = [b \in Blocks |-> NoFile]
    /\ ops = 0

\* the sizes a format is asked for: one the size check rejects, and one
\* scaled megabyte
FormatSizes == {0, 1}

\* menu option 1: create_filesystem and, when it answers True,
\* _load_filesystem once more
Format(max) ==
    /\ ops < max
    /\ ops' = ops + 1
    /\ \E size_mb \in FormatSizes, now \in Timestamps :
        LET r == create_filesystem(State, size_mb, now)
        IN  /\ mounted' = (r.ret \/ mounted)
            /\ Install(IF r.ret THEN _load_filesystem(r.st) ELSE r.st)
            /\ given' = IF r.ret
                        THEN [b \in Blocks |->
                                 IF b = 1 THEN [has |-> TRUE, content |-> Authors]
                                 ELSE NoFile]
                        ELSE given

\* menu option 2 on the volume file: the old handle is closed, and so
\* flushed, when the new one replaces it
Mount(max) ==
    /\ disk_header # NoHeader
    /\ ops < max
    /\ ops' = ops + 1
    /\ mounted' = TRUE
    /\ Install(_load_filesystem(State))
    /\ UNCHANGED given

\* menu option 2 on a file that is no volume
MountRejected(max) ==
    /\ ops < max
    /\ ops' = ops + 1
    /\ \E kind \in LoadKinds :
        LET st == _load_filesystem_rejected(State, kind)
        IN  /\ mounted' = (st.file_handle = VolumeFile)
            /\ Install(st)
    /\ UNCHANGED given

CopyToFs(N, max) ==
    /\ Call(max)
    /\ \E name \in N, content \in Contents, now \in Timestamps :
           LET r == copy_to_fs(State, name, content, now)
               head == _find_free_block(fat)
           IN  /\ Install(r.st)
               /\ given' = IF r.ret
                           THEN [given EXCEPT ![head] =
                                    [has |-> TRUE, content |-> content]]
                           ELSE given

RemoveFile(N, max) ==
    /\ Call(max)
    /\ \E name \in N :
           LET r == remove_file(State, name)
               entries == _read_directory(State, current_directory)
               i == FileIndex(entries, name)
           IN  /\ Install(r.st)
               /\ given' = IF r.ret
                           THEN [given EXCEPT ![entries[i + 1].start_block] = NoFile]
                           ELSE given

CreateDirectory(N, max) ==
    /\ Call(max)
    /\ \E name \in N, now \in Timestamps :
           Install(create_directory(State, name, now).st)
    /\ UNCHANGED given

ChangeDirectory(N, max) ==
    /\ Call(max)
    /\ \E name \in N \cup {DotDot} :
           Install(change_directory(State, name).st)
    /\ UNCHANGED given

RemoveDirectory(N, max) ==
    /\ Call(max)
    /\ \E name \in N : Install(remove_directory(State, name).st)
    /\ UNCHANGED given

RenameFile(N, max) ==
    /\ Call(max)
    /\ \E old \in N, new \in N :
           Install(rename_file(State, old, new).st)
    /\ UNCHANGED given

RenameDirectory(N, max) ==
    /\ Call(max)
    /\ \E old \in N, new \in N :
           Install(rename_directory(State, old, new).st)
    /\ UNCHANGED given

ToggleProtection(N, max) ==
    /\ Call(max)
    /\ \E name \in N : Install(toggle_protection(State, name).st)
    /\ UNCHANGED given

Next ==
    \/ Format(MaxOps)
    \/ Mount(MaxOps)
    \/ MountRejected(MaxOps)
    \/ CopyToFs(Names, MaxOps)
    \/ RemoveFile(Names, MaxOps)
    \/ CreateDirectory(Names, MaxOps)
    \/ ChangeDirectory(Names, MaxOps)
    \/ RemoveDirectory(Names, MaxOps)
    \/ RenameFile(Names, MaxOps)
    \/ RenameDirectory(Names, MaxOps)
    \/ ToggleProtection(Names, MaxOps)

Spec == Init /\ [][Next]_vars

\* the same operations with the long and the non-ASCII names
NextWide ==
    \/ Format(MaxOpsWide)
    \/ Mount(MaxOpsWide)
    \/ MountRejected(MaxOpsWide)
    \/ CopyToFs(WideNames, MaxOpsWide)
    \/ RemoveFile(WideNames, MaxOpsWide)
    \/ CreateDirectory(WideNames, MaxOpsWide)
    \/ ChangeDirectory(WideNames, MaxOpsWide)
    \/ RemoveDirectory(WideNames, MaxOpsWide)
    \/ RenameFile(WideNames, MaxOpsWide)
    \/ RenameDirectory(WideNames, MaxOpsWide)
    \/ ToggleProtection(WideNames, MaxOpsWide)

SpecWide == Init /\ [][NextWide]_vars

\* The file when execution stops inside an operation that takes st to post.
\* The writes reach the file in the order they were made, and _update_fat is
\* the last step of every operation that calls it: the file holds none of
\* the operation's writes, or its block writes without the rewritten chain
\* table, or all of them.
StoppedFiles(st, post) ==
    {st,
     [st EXCEPT !.disk = post.disk],
     [st EXCEPT !.disk = post.disk, !.disk_fat = post.disk_fat]}

MutatingOps == {"create_file", "create_directory", "remove_file", "remove_directory"}

\* one of the operations that end with _update_fat
Mutation(st, op, name, content, now) ==
    CASE op = "create_file" -> _create_file_in_fs(st, name, content, now)
      [] op = "create_directory" -> create_directory(st, name, now)
      [] op = "remove_file" -> remove_file(st, name)
      [] op = "remove_directory" -> remove_directory(st, name)

\* the process stops inside a mutating operation, and a new one mounts the
\* file as it was left
Crash(N, max) ==
    /\ Call(max)
    /\ \E op \in MutatingOps, name \in N, content \in Contents, now \in Timestamps :
           LET r == Mutation(State, op, name, content, now)
           IN  /\ r.ret
               /\ \E file \in StoppedFiles(State, r.st) :
                      Install(_load_filesystem(file))
    /\ UNCHANGED given

\* format, the operations that end with _update_fat, change_directory, and
\* the stops inside those operations
NextCrash ==
    \/ Format(MaxOpsCrash)
    \/ CopyToFs(Names, MaxOpsCrash)
    \/ RemoveFile(Names, MaxOpsCrash)
    \/ CreateDirectory(Names, MaxOpsCrash)
    \/ ChangeDirectory(Names, MaxOpsCrash)
    \/ RemoveDirectory(Names, MaxOpsCrash)
    \/ Crash(Names, MaxOpsCrash)

SpecCrash == Init /\ [][NextCrash]_vars

\* The size check and the layout of create_filesystem on the geometry of the
\* source (blocks of 1024 bytes, sizes in megabytes), applied to the sizes
\* of LayoutSizes.  The chain table and the blocks of a volume of that size
\* are not built here.
LayoutSizes ==
    (-1 .. MaxSizeMb) \cup {2047, 2048, 4095, 4096, 4097, 9999, 10000, 10001}

CreateHeader ==
    /\ ops < 1
    /\ ops' = ops + 1
    /\ \E size_mb \in LayoutSizes :
           LET p == PackHeader(size_mb, MB, SourceSlots)
           IN  /\ disk_header' = (IF p.ok THEN p.header ELSE disk_header)
               /\ header' = (IF p.ok THEN p.header ELSE header)
    /\ UNCHANGED <<mounted, file_handle, dirty, fat, disk_fat, disk,
                   current_directory, directory_path, given>>

NextLayout == CreateHeader

SpecLayout == Init /\ [][NextLayout]_vars

---------------------------------------------------------------------------
(* What the properties speak of: the directory tree, chains, slots *)

CurrentEntries == _read_directory(State, current_directory)

\* the directory blocks reachable from the root through listed type-1 entries
RECURSIVE DirClosure(_, _)
DirClosure(st, seen) ==
    LET more == {b \in Blocks \ seen :
                    \E d \in seen :
                        LET es == _read_directory(st, d)
                        IN  \E i \in 1 .. Len(es) :
                                es[i].type = 1 /\ es[i].start_block = b}
    IN  IF more = {} THEN seen ELSE DirClosure(st, seen \cup more)

ReachableDirs(st) == DirClosure(st, {0})

\* a listed entry: <<directory block, index in the listing>>
Refs(st) ==
    UNION {{<<d, i>> : i \in 1 .. Len(_read_directory(st, d))} :
              d \in ReachableDirs(st)}

EntryAt(st, r) == _read_directory(st, r[1])[r[2]]

\* the blocks met from b along the chain-table pointers
RECURSIVE ChainFrom(_, _, _)
ChainFrom(f, b, seen) ==
    IF b \in seen THEN seen
    ELSE IF FatAt(f, b) \in {0, 1} THEN seen \cup {b}
    ELSE ChainFrom(f, FatAt(f, b), seen \cup {b})

Chain(st, e) == ChainFrom(st.fat, e.start_block, {})

\* the slot that holds the i-th (from 0) listed entry of a directory block
RECURSIVE NthValidSlot(_, _, _, _)
NthValidSlot(blk, nfat, s, i) ==
    IF s >= SlotsPerBlock THEN -1
    ELSE IF DecodeCell(blk[s], nfat).ok
         THEN IF i = 0 THEN s ELSE NthValidSlot(blk, nfat, s + 1, i - 1)
    ELSE NthValidSlot(blk, nfat, s + 1, i)

SlotOfIndex(i) == NthValidSlot(disk[current_directory], Len(fat), 0, i)

NameIndex(entries, name) == FirstIndex(entries, name, {0, 1}, 1)

TypedIndex(entries, name, item_type) == FirstIndex(entries, name, {item_type}, 1)

---------------------------------------------------------------------------
(* Properties *)

\* C1: after every operation, a block's chain-table entry is 0 exactly when
\* the block is not block 0 and lies in the chain of no entry reachable from
\* the root.
C1_FreeIffUnreachable ==
    mounted =>
        LET used == UNION {Chain(State, EntryAt(State, r)) : r \in Refs(State)}
        IN  \A b \in Blocks : (FatAt(fat, b) = 0) <=> (b # 0 /\ b \notin used)

\* C2: after every operation, no block lies in the chains of two different
\* directory entries, and no chain head is referenced by two entries.
C2_ChainsDisjoint ==
    mounted =>
        \A r1 \in Refs(State), r2 \in Refs(State) :
            r1 # r2 =>
                /\ Chain(State, EntryAt(State, r1)) \cap
                       Chain(State, EntryAt(State, r2)) = {}
                /\ EntryAt(State, r1).start_block # EntryAt(State, r2).start_block

\* C3: after every operation, no two occupied slots of one directory block
\* hold the same name.
C3_NamesUnique ==
    mounted =>
        \A d \in ReachableDirs(State) :
            LET es == _read_directory(State, d)
            IN  \A i \in 1 .. Len(es), j \in 1 .. Len(es) :
                    i # j => es[i].name # es[j].name

\* C4: every file listed in the current directory reads back as exactly the
\* bytes given to create_file for it, as many as its recorded size.
C4_ReadReturnsGiven ==
    mounted =>
        \A i \in 1 .. Len(CurrentEntries) :
            LET e == CurrentEntries[i]
                r == _read_file_from_fs(State, e.name)
            IN  e.type = 0 =>
                    /\ ~ r.none
                    /\ given[e.start_block].has
                    /\ r.content = given[e.start_block].content
                    /\ Len(r.content) = e.size

\* C5: for a non-empty buffer and a name not yet present, copy_in succeeds
\* only if the stored file reads back equal to the buffer, and copy_out of
\* that name then yields the buffer; when the read-back differs copy_in
\* fails and the name is not listed.
C5_RoundTrip ==
    mounted =>
        \A name \in WideNames, content \in Contents, now \in Timestamps :
            (Len(content) >= 1 /\ ~ AnyNamed(CurrentEntries, name)) =>
                LET c == _create_file_in_fs(State, name, content, now)
                    r == copy_to_fs(State, name, content, now)
                    back == _read_file_from_fs(c.st, name)
                IN  /\ r.ret =>
                           /\ ~ back.none
                           /\ back.content = content
                           /\ copy_from_fs(r.st, name) =
                                  [ret |-> TRUE, out |-> content]
                    /\ (c.ret /\ (back.none \/ back.content # content)) =>
                           /\ ~ r.ret
                           /\ ~ AnyNamed(_read_directory(r.st, current_directory),
                                         name)

\* C6: a successful remove_file(name) sets the chain-table entry of every
\* block of the file's chain to 0 and zeroes the slot holding the file's
\* entry, so that the name is no longer listed, and changes no other slot
\* and no other chain-table entry.
C6_RemoveFileEffect ==
    mounted =>
        \A name \in Names :
            LET r == remove_file(State, name)
                i == FileIndex(CurrentEntries, name)
                slot == SlotOfIndex(i)
                chain == Chain(State, CurrentEntries[i + 1])
            IN  r.ret =>
                    /\ \A b \in chain : FatAt(r.st.fat, b) = 0
                    /\ r.st.disk[current_directory][slot] = ZeroCell
                    /\ FileIndex(_read_directory(r.st, current_directory), name) = -1
                    /\ \A s \in SlotIdx \ {slot} :
                           r.st.disk[current_directory][s] = disk[current_directory][s]
                    /\ \A b \in Blocks \ chain : FatAt(r.st.fat, b) = FatAt(fat, b)

\* the step is a format, or a toggle_protection of the entry called name
\* in directory d
FormatStep ==
    \E now \in Timestamps :
        Install(_load_filesystem(create_filesystem(State, 1, now).st))

ToggleStepOn(d, name) ==
    /\ current_directory = d
    /\ Install(toggle_protection(State, name).st)

\* C7: an entry whose protected flag is set stays in its slot with the same
\* name, size and start_block, and its chain stays allocated, through every
\* operation other than a toggle_protection of that entry (or a new format).
C7_ProtectedStays ==
    [][\A d \in Blocks, s \in SlotIdx :
           LET c == DecodeCell(disk[d][s], Len(fat))
               c2 == DecodeCell(disk'[d][s], Len(fat'))
           IN  (/\ mounted
                /\ d \in ReachableDirs(State)
                /\ c.ok
                /\ c.entry.protected
                /\ ~ FormatStep
                /\ ~ ToggleStepOn(d, c.entry.name))
               => /\ c2.ok
                  /\ c2.entry.name = c.entry.name
                  /\ c2.entry.size = c.entry.size
                  /\ c2.entry.start_block = c.entry.start_block
                  /\ \A b \in Chain(State, c.entry) : FatAt(fat', b) # 0]_vars

\* C8: a create with a name already present or of 32 or more bytes, a rename
\* with a missing or protected target, a colliding new name or a new name of
\* 32 or more bytes, a remove_file or remove_directory of a missing or
\* protected target, and a remove_directory of a non-directory or of a
\* non-empty directory are rejected and leave the volume as it was; a name of
\* exactly 31 bytes is not rejected for its length.
C8_RejectedUnchanged ==
    mounted =>
        \A n \in WideNames, m \in WideNames, content \in Contents,
           now \in Timestamps, t \in {0, 1} :
            LET es == CurrentEntries
                Long(x) == Len(Utf8Encode(x)) >= MAX_FILENAME
                Rejected(r) == ~ r.ret /\ r.st = State
                ti == TypedIndex(es, n, t)
                ni == NameIndex(es, n)
            IN  /\ (AnyNamed(es, n) \/ Long(n)) =>
                       /\ Rejected(_create_file_in_fs(State, n, content, now))
                       /\ Rejected(create_directory(State, n, now))
                /\ (\/ ti = -1
                    \/ es[ti + 1].protected
                    \/ AnyNamed(es, m)
                    \/ Long(m)) => Rejected(_rename_item(State, n, m, t))
                /\ (LET fi == FileIndex(es, n)
                    IN  fi = -1 \/ es[fi + 1].protected) =>
                       Rejected(remove_file(State, n))
                /\ (\/ ni = -1
                    \/ es[ni + 1].type # 1
                    \/ es[ni + 1].protected
                    \/ _read_directory(State, es[ni + 1].start_block) # <<>>) =>
                       Rejected(remove_directory(State, n))
                /\ (/\ Len(Utf8Encode(n)) = MAX_FILENAME - 1
                    /\ ~ AnyNamed(es, n)
                    /\ _find_free_block(fat) # -1
                    /\ FreeSlot(disk[current_directory], 0) # -1) =>
                       /\ create_directory(State, n, now).ret
                       /\ _create_file_in_fs(State, n, <<>>, now).ret

\* C9: a successful rename(old, new) leaves exactly one entry named new, in
\* the slot where old was stored, with old's size, start_block, timestamp,
\* protected flag and type; no entry named old remains; the other slots of
\* the block and the chain table are unchanged.
C9_RenameInPlace ==
    mounted =>
        \A old \in Names, new \in Names, t \in {0, 1} :
            LET r == _rename_item(State, old, new, t)
                es == CurrentEntries
                i == TypedIndex(es, old, t)
                slot == SlotOfIndex(i)
                after == _read_directory(r.st, current_directory)
                c == DecodeCell(r.st.disk[current_directory][slot], Len(fat))
            IN  r.ret =>
                    /\ c.ok
                    /\ c.entry = [es[i + 1] EXCEPT !.name = new]
                    /\ Cardinality({k \in 1 .. Len(after) : after[k].name = new}) = 1
                    /\ ~ AnyNamed(after, old)
                    /\ \A s \in SlotIdx \ {slot} :
                           r.st.disk[current_directory][s] = disk[current_directory][s]
                    /\ r.st.fat = fat
                    /\ r.st.disk_fat = disk_fat

\* C10: toggle_protection(name) flips the protected flag of the named entry
\* and changes nothing else in that entry, in the other slots of the block
\* or in the chain table; called twice in a row it restores the block.
C10_ToggleFlipsOnly ==
    mounted =>
        \A name \in Names :
            LET r == toggle_protection(State, name)
                es == CurrentEntries
                i == NameIndex(es, name)
                slot == SlotOfIndex(i)
                c == DecodeCell(r.st.disk[current_directory][slot], Len(fat))
                again == toggle_protection(r.st, name)
            IN  r.ret =>
                    /\ c.ok
                    /\ c.entry = [es[i + 1] EXCEPT !.protected = ~ @]
                    /\ \A s \in SlotIdx \ {slot} :
                           r.st.disk[current_directory][s] = disk[current_directory][s]
                    /\ r.st.fat = fat
                    /\ r.st.disk_fat = disk_fat
                    /\ again.ret
                    /\ again.st.disk[current_directory] = disk[current_directory]

\* C11: when every slot of the current directory is occupied, create_file
\* and create_directory of a new name fail with DirectoryFull and leave the
\* chain table, in memory and on disk, and every directory block as they
\* were: no block stays allocated for the rejected entry.
C11_DirectoryFullNoLeak ==
    mounted =>
        \A name \in Names \cup {NameC}, content \in Contents, now \in Timestamps :
            (/\ \A s \in SlotIdx : FirstByte(disk[current_directory][s]) # 0
             /\ ~ AnyNamed(CurrentEntries, name)) =>
                LET c == _create_file_in_fs(State, name, content, now)
                    d == create_directory(State, name, now)
                    Kept(r) ==
                        /\ r.st.fat = fat
                        /\ r.st.disk_fat = disk_fat
                        /\ \A b \in ReachableDirs(State) : r.st.disk[b] = disk[b]
                IN  /\ ~ c.ret /\ Kept(c)
                    /\ ~ d.ret /\ Kept(d)

\* C12: a successful remove_directory(name) sets the chain-table entry of
\* the directory's block to 0 and zeroes the slot holding its entry, so that
\* the name is no longer listed, and changes no other slot and no other
\* chain-table entry, whatever slots are occupied.
C12_RemoveDirectoryEffect ==
    mounted =>
        \A name \in Names :
            LET r == remove_directory(State, name)
                i == TypedIndex(CurrentEntries, name, 1)
                slot == SlotOfIndex(i)
                block == CurrentEntries[i + 1].start_block
            IN  r.ret =>
                    /\ FatAt(r.st.fat, block) = 0
                    /\ FatAt(r.st.disk_fat, block) = 0
                    /\ r.st.disk[current_directory][slot] = ZeroCell
                    /\ ~ AnyNamed(_read_directory(r.st, current_directory), name)
                    /\ \A s \in SlotIdx \ {slot} :
                           r.st.disk[current_directory][s] = disk[current_directory][s]
                    /\ \A b \in Blocks \ {block} : FatAt(r.st.fat, b) = FatAt(fat, b)

\* the volume as the object holds it right after a format of one scaled
\* megabyte
Formatted(now) == _load_filesystem(create_filesystem(State, 1, now).st)

\* C13: right after a format the chain table is all zeros except entry 0,
\* which is 1, the root directory has no entries, and the current directory
\* is the root with path "/".
C13_FreshVolumeEmpty ==
    [][\A now \in Timestamps :
           (ops' = ops + 1 /\ mounted' /\ Install(Formatted(now))) =>
               /\ fat' = [i \in 1 .. TotalBlocks |-> IF i = 1 THEN 1 ELSE 0]
               /\ disk_fat' = fat'
               /\ _read_directory(Formatted(now), 0) = <<>>
               /\ current_directory' = 0
               /\ get_current_path(Formatted(now)) = Slash]_vars

\* C14: format rejects the sizes below 1 MB and above 10 000 MB, and
\* succeeds for every size_mb in 1 .. 10000, recording size_mb x 1048576
\* bytes as the total size in the superblock.
C14_SizeRange ==
    [][\A size_mb \in LayoutSizes :
           LET p == PackHeader(size_mb, MB, SourceSlots)
           IN  (/\ ops' = ops + 1
                /\ header' = (IF p.ok THEN p.header ELSE header)) =>
                   /\ (size_mb < 1 \/ size_mb > 10000) => header' = header
                   /\ (1 <= size_mb /\ size_mb <= 10000) =>
                          /\ header' # NoHeader
                          /\ header'.total_size = size_mb * MB]_vars

\* C15: for total size T, block size B and header size H, format computes
\* total_blocks = (T - H) div B, fat_start = H, fat_blocks =
\* ceil(total_blocks * 4 / B), root_start = fat_start + fat_blocks * B and
\* data_start = root_start + B; for 1 MB and B = 1024 bytes that is 1023
\* blocks, 4 table blocks, root_start 4224 and data_start 5248; the header,
\* the chain table and the root block do not overlap.
C15_Layout ==
    header # NoHeader =>
        LET T == header.total_size
            B == header.block_size
            fat_blocks == (header.root_start - header.fat_start) \div B
            table_end == header.fat_start * ENTRY_SIZE
                             + header.total_blocks * FAT_ENTRY_SIZE
        IN  /\ header.total_blocks * B <= T - HeaderCells
            /\ T - HeaderCells < (header.total_blocks + 1) * B
            /\ header.fat_start * ENTRY_SIZE = HEADER_SIZE
            /\ fat_blocks * B * ENTRY_SIZE >= header.total_blocks * FAT_ENTRY_SIZE
            /\ (fat_blocks - 1) * B * ENTRY_SIZE < header.total_blocks * FAT_ENTRY_SIZE
            /\ header.root_start = header.fat_start + fat_blocks * B
            /\ header.data_start = header.root_start + B
            /\ (T = MB /\ B = SourceSlots) =>
                   /\ header.total_blocks = 1023
                   /\ fat_blocks = 4
                   /\ header.root_start * ENTRY_SIZE = 4224
                   /\ header.data_start * ENTRY_SIZE = 5248
            /\ HEADER_SIZE <= header.fat_start * ENTRY_SIZE
            /\ table_end <= header.root_start * ENTRY_SIZE
            /\ header.root_start + B <= header.data_start

\* a 1 MB volume has been laid out
C15_Witness ==
    /\ ops = 1
    /\ header # NoHeader
    /\ header.total_size = MB
    /\ header.total_blocks = 1023
    /\ header.root_start * ENTRY_SIZE = 4224

\* C16: every successful create_file, create_directory, remove_file,
\* remove_directory, rename_file, rename_directory and toggle_protection
\* has flushed the backing file when it returns.
C16_MutationsFlush ==
    mounted =>
        \A n \in Names, m \in Names, content \in Contents, now \in Timestamps :
            LET Flushed(r) == r.ret => ~ r.st.dirty
            IN  /\ Flushed(_create_file_in_fs(State, n, content, now))
                /\ Flushed(create_directory(State, n, now))
                /\ Flushed(remove_file(State, n))
                /\ Flushed(remove_directory(State, n))
                /\ Flushed(rename_file(State, n, m))
                /\ Flushed(rename_directory(State, n, m))
                /\ Flushed(toggle_protection(State, n))

\* the file st holds, as a mount would see it: no listed entry starts at a
\* block whose chain-table entry in the file is 0, and no block is in the
\* chains of two entries
FileSound(st) ==
    LET v == _load_filesystem(st)
    IN  /\ \A r \in Refs(v) : FatAt(v.fat, EntryAt(v, r).start_block) # 0
        /\ \A r1 \in Refs(v), r2 \in Refs(v) :
               r1 # r2 => Chain(v, EntryAt(v, r1)) \cap Chain(v, EntryAt(v, r2)) = {}

\* C17: when execution stops anywhere inside a mutating operation on a sound
\* volume, the file is still sound: at worst blocks are marked allocated
\* that no entry refers to.
C17_StopKeepsFileSound ==
    (mounted /\ FileSound(State)) =>
        \A op \in MutatingOps, n \in Names, content \in Contents, now \in Timestamps :
            LET r == Mutation(State, op, n, content, now)
            IN  r.ret => \A file \in StoppedFiles(State, r.st) : FileSound(file)

\* C18: a mount rejected for a missing file, a short file or a bad signature,
\* and a format rejected for its size, leave the object as it was: the file
\* handle, the superblock record, the in-memory chain table, the current
\* directory and the path.
C18_RejectedLoadKeepsObject ==
    mounted =>
        LET Same(st) ==
                /\ st.file_handle = file_handle
                /\ st.header = header
                /\ st.fat = fat
                /\ st.current_directory = current_directory
                /\ st.directory_path = directory_path
        IN  /\ \A kind \in LoadKinds : Same(_load_filesystem_rejected(State, kind))
            /\ \A size_mb \in {0, 10001}, now \in Timestamps :
                   LET r == create_filesystem(State, size_mb, now)
                   IN  ~ r.ret /\ Same(r.st)

\* "/" followed by the names joined by single "/"
RECURSIVE PathOf(_)
PathOf(names) ==
    IF names = <<>> THEN <<>> ELSE Slash \o Head(names) \o PathOf(Tail(names))

\* C19: current_path() is "/" at the root and otherwise "/" followed by the
\* entered names separated by single "/"; after change_directory(d) from the
\* root the current block is d's start_block and the path is "/d".
C19_CurrentPath ==
    mounted =>
        /\ get_current_path(State) =
               (IF Len(directory_path) = 1 THEN Slash
                ELSE PathOf(Tail(directory_path)))
        /\ \A d \in Names :
               LET r == change_directory(State, d)
                   i == TypedIndex(CurrentEntries, d, 1)
               IN  (current_directory = 0 /\ directory_path = <<Slash>> /\ r.ret) =>
                       /\ r.st.current_directory = CurrentEntries[i + 1].start_block
                       /\ get_current_path(r.st) = Slash \o d

FreeCount(f) == Cardinality({i \in 1 .. Len(f) : f[i] = 0})

\* C20: allocate_chain(n) called when fewer than n chain-table entries are 0
\* returns the empty list and leaves every chain-table entry as it was.
C20_AllocRollback ==
    mounted =>
        \A n \in 0 .. (TotalBlocks + 1) :
            FreeCount(fat) < n =>
                _allocate_blocks(fat, n) = [fat |-> fat, blocks |-> <<>>]

\* a create that needs two blocks is refused for space with one block free,
\* after the allocator took that block and gave it back
C20_Witness ==
    /\ mounted
    /\ FreeCount(fat) = 1
    /\ ~ AnyNamed(CurrentEntries, NameB)
    /\ AllocLoop(fat, <<>>, 2).failed
    /\ LET c == _create_file_in_fs(State, NameB, ContentOfLen(BLOCK_SIZE + 1), 1)
       IN  ~ c.ret /\ ~ c.raised /\ c.st.fat = fat

\* C21: allocate_chain(n) with n >= 1 and at least n free entries returns the
\* n lowest-indexed free blocks in increasing order, links each to the next,
\* sets the entry of the last to 1, and changes no other chain-table entry.
C21_AllocLowestFirst ==
    mounted =>
        \A n \in 1 .. TotalBlocks :
            FreeCount(fat) >= n =>
                LET a == _allocate_blocks(fat, n)
                    free == {b \in Blocks : FatAt(fat, b) = 0}
                    got == {a.blocks[i] : i \in 1 .. Len(a.blocks)}
                IN  /\ Len(a.blocks) = n
                    /\ \A i \in 1 .. (n - 1) : a.blocks[i] < a.blocks[i + 1]
                    /\ got \subseteq free
                    /\ \A b \in free \ got : b > a.blocks[n]
                    /\ \A i \in 1 .. (n - 1) :
                           FatAt(a.fat, a.blocks[i]) = a.blocks[i + 1]
                    /\ FatAt(a.fat, a.blocks[n]) = 1
                    /\ \A b \in Blocks \ got : FatAt(a.fat, b) = FatAt(fat, b)

\* the free blocks are 2 and 4 with block 3 in use, and a chain of two
\* blocks is allocated over them
C21_Witness ==
    /\ mounted
    /\ {b \in Blocks : FatAt(fat, b) = 0} = {2, 4}
    /\ _allocate_blocks(fat, 2).blocks = <<2, 4>>
    /\ FatAt(_allocate_blocks(fat, 2).fat, 2) = 4

\* the walk from block b along the chain-table pointers: the blocks visited,
\* and whether it ended at an entry equal to 1 without meeting an entry equal
\* to 0 or a block a second time
RECURSIVE WalkChain(_, _, _)
WalkChain(f, b, seen) ==
    IF b \in seen THEN [blocks |-> seen, ended |-> FALSE]
    ELSE IF FatAt(f, b) = 0 THEN [blocks |-> seen \cup {b}, ended |-> FALSE]
    ELSE IF FatAt(f, b) = 1 THEN [blocks |-> seen \cup {b}, ended |-> TRUE]
    ELSE WalkChain(f, FatAt(f, b), seen \cup {b})

\* C22: after every operation, the walk from the start_block of each file
\* entry visits exactly max(1, ceil(size / BLOCK_SIZE)) distinct blocks, none
\* with table value 0, and ends at a block whose value is 1; each directory
\* entry has size 0 and a chain of exactly one block; a zero-byte file has
\* one block and reads back as the empty buffer.
C22_ChainLengthMatchesSize ==
    mounted =>
        /\ \A r \in Refs(State) :
               LET e == EntryAt(State, r)
                   w == WalkChain(fat, e.start_block, {})
               IN  /\ w.ended
                   /\ e.type = 0 =>
                          Cardinality(w.blocks) =
                              Max(1, (e.size + BLOCK_SIZE - 1) \div BLOCK_SIZE)
                   /\ e.type = 1 => (e.size = 0 /\ Cardinality(w.blocks) = 1)
        /\ \A i \in 1 .. Len(CurrentEntries) :
               LET e == CurrentEntries[i]
                   r == _read_file_from_fs(State, e.name)
               IN  (e.type = 0 /\ e.size = 0 /\ FileIndex(CurrentEntries, e.name) = i - 1)
                       => (~ r.none /\ r.content = <<>>)

\* C23: in every reachable state the current directory block is the block
\* reached by walking directory_path from the root through type-1 entries by
\* name, and it is allocated (block 0, or a block whose chain-table entry is
\* not 0); change_directory(name) followed by change_directory("..")
\* restores the current block and the path.
C23_CurrentBlockIsPathWalk ==
    mounted =>
        LET w == WalkPath(State, Tail(directory_path), 0)
        IN  /\ w.found
            /\ w.block = current_directory
            /\ current_directory = 0 \/ FatAt(fat, current_directory) # 0
            /\ \A d \in Names :
                   LET r == change_directory(State, d)
                       back == change_directory(r.st, DotDot)
                   IN  r.ret =>
                           /\ back.ret
                           /\ back.st.current_directory = current_directory
                           /\ back.st.directory_path = directory_path

\* C24: in every reachable state table[0] = 1, and the allocator never
\* returns block 0: no entry made by create_file or create_directory has
\* start_block 0.
C24_BlockZeroReserved ==
    mounted =>
        /\ FatAt(fat, 0) = 1
        /\ FatAt(disk_fat, 0) = 1
        /\ \A n \in 1 .. TotalBlocks :
               LET a == _allocate_blocks(fat, n)
               IN  \A i \in 1 .. Len(a.blocks) : a.blocks[i] # 0
        /\ \A name \in Names, content \in Contents, now \in Timestamps :
               LET c == _create_file_in_fs(State, name, content, now)
                   d == create_directory(State, name, now)
                   New(r) ==
                       LET es == _read_directory(r.st, current_directory)
                           i == NameIndex(es, name)
                       IN  r.ret => (i # -1 /\ es[i + 1].start_block # 0)
               IN  New(c) /\ New(d)

\* files and directories have been created and removed, a create of the
\* name "b" succeeds in the current directory, and entry 0 is still 1
C24_Witness ==
    /\ mounted
    /\ ops >= 3
    /\ FatAt(fat, 0) = 1
    /\ \E r \in Refs(State) : EntryAt(State, r).start_block = 3
    /\ FatAt(fat, 2) = 0
    /\ create_directory(State, NameB, 1).ret
    /\ _allocate_blocks(fat, 1).blocks = <<2>>

\* C25: a file whose chain head is block 1 behaves like any other file: the
\* allocator returns <<1>> for it and table[1] becomes 1, read_file returns
\* all of its bytes, and a successful remove_file sets table[1] and the rest
\* of its chain to 0.
C25_HeadBlockOne ==
    mounted =>
        /\ \A name \in Names, content \in Contents, now \in Timestamps :
               LET c == _create_file_in_fs(State, name, content, now)
                   a == _allocate_blocks(fat, 1)
               IN  (_find_free_block(fat) = 1 /\ Len(content) <= BLOCK_SIZE /\ c.ret) =>
                       (a.blocks = <<1>> /\ FatAt(c.st.fat, 1) = 1)
        /\ \A i \in 1 .. Len(CurrentEntries) :
               LET e == CurrentEntries[i]
                   r == _read_file_from_fs(State, e.name)
                   rm == remove_file(State, e.name)
               IN  (/\ e.type = 0
                    /\ e.start_block = 1
                    /\ FileIndex(CurrentEntries, e.name) = i - 1
                    /\ FatAt(fat, 1) # 0) =>
                       /\ ~ r.none
                       /\ Len(r.content) = e.size
                       /\ given[1].has => r.content = given[1].content
                       /\ rm.ret =>
                              \A b \in WalkChain(fat, 1, {}).blocks :
                                  FatAt(rm.st.fat, b) = 0

\* C26: whenever create_file or create_directory returns success, the new
\* entry is listed in the current directory under the given name with the
\* given type and size and with the head of the chain just allocated as its
\* start_block; this holds for every accepted name, the empty name and the
\* names read_directory treats as invalid included, so that no successful
\* create leaves allocated blocks that no listed entry references.
C26_CreatedIsListed ==
    mounted =>
        \A name \in WideNames \cup {<<>>}, content \in Contents, now \in Timestamps :
            LET c == _create_file_in_fs(State, name, content, now)
                d == create_directory(State, name, now)
                head == _find_free_block(fat)
                Listed(r, type, size) ==
                    LET es == _read_directory(r.st, current_directory)
                    IN  r.ret =>
                            \E i \in 1 .. Len(es) :
                                /\ es[i].name = name
                                /\ es[i].type = type
                                /\ es[i].size = size
                                /\ es[i].start_block = head
            IN  Listed(c, 0, Len(content)) /\ Listed(d, 1, 0)

\* C27: for every block index b the allocator can return, 1 <= b <
\* total_blocks, the byte range [data_start + (b - 1) * B, data_start + b * B)
\* lies inside [0, total_bytes): no block of the chain table is outside the
\* volume.  The range grows with b, so the first and the last index decide.
C27_BlocksInsideVolume ==
    header # NoHeader =>
        \A b \in {1, header.total_blocks - 1} :
            (1 <= b /\ b < header.total_blocks) =>
                /\ 0 <= header.data_start + (b - 1) * header.block_size
                /\ header.data_start + b * header.block_size <= header.total_size

\* C28: in every reachable state of a mounted volume, space_info() returns
\* free_bytes = BLOCK_SIZE x (number of chain-table entries equal to 0) and
\* free_bytes <= total_data_bytes, so that the used space total_data_bytes -
\* free_bytes is never negative.
C28_SpaceInfo ==
    mounted =>
        LET s == get_space_info(State)
        IN  /\ s.free_bytes = BLOCK_SIZE * ENTRY_SIZE * FreeCount(fat)
            /\ s.free_bytes <= s.total_bytes
            /\ s.total_bytes - s.free_bytes >= 0

\* the directory blocks below block d: those reached from it through listed
\* type-1 entries in one step or more
Children(st, d) ==
    LET es == _read_directory(st, d)
    IN  {es[i].start_block : i \in {k \in 1 .. Len(es) : es[k].type = 1}}

RECURSIVE Below(_, _, _)
Below(st, frontier, seen) ==
    LET more == UNION {Children(st, d) : d \in frontier} \ seen
    IN  IF more = {} THEN seen ELSE Below(st, more, seen \cup more)

Descendants(st, d) == Below(st, {d}, {})

\* the sum of the sizes of the files listed in the directory blocks of S
RECURSIVE FileBytes(_, _)
FileBytes(st, S) ==
    IF S = {} THEN 0
    ELSE LET d == CHOOSE x \in S : TRUE
             es == _read_directory(st, d)
         IN  SumSeq([i \in 1 .. Len(es) |->
                        IF es[i].type = 0 THEN es[i].size ELSE 0])
             + FileBytes(st, S \ {d})

\* C29: after any sequence of operations the directories reachable from the
\* root form a tree: no directory block is reachable from itself through
\* type-1 entries and no directory block is the target of two entries; the
\* recursive size computation of the listing ends without error and gives,
\* for each subdirectory, the sum of the sizes of all files under it.
C29_DirectoriesFormTree ==
    mounted =>
        /\ \A d \in ReachableDirs(State) : d \notin Descendants(State, d)
        /\ \A r1 \in Refs(State), r2 \in Refs(State) :
               (/\ r1 # r2
                /\ EntryAt(State, r1).type = 1
                /\ EntryAt(State, r2).type = 1) =>
                   EntryAt(State, r1).start_block # EntryAt(State, r2).start_block
        /\ \A r \in Refs(State) :
               LET e == EntryAt(State, r)
                   under == FileBytes(State, {e.start_block}
                                                 \cup Descendants(State, e.start_block))
               IN  e.type = 1 =>
                       /\ _calculate_directory_size(State, e.start_block, 1) # -1
                       /\ calculated_size(State, e) = under

=============================================================================
